---- MODULE Spec2Model ----
(***************************************************************************)
(* Model of the two Secrets Manager metadata data sources:                 *)
(*   - private certificate metadata                                        *)
(*       (data_source_ibm_sm_private_certificate_metadata.go)              *)
(*   - username/password secret metadata                                   *)
(*       (second file, lines 72-389)                                       *)
(* A read is modelled statement by statement: session acquisition, the     *)
(* remote fetch, the type assertion, d.SetId, then one d.Set per attribute *)
(* in source order.                                                        *)
(***************************************************************************)
EXTENDS Integers, Sequences, FiniteSets, TLC

\* ------------------------------------------------------------------------
\* Bounds
\* ------------------------------------------------------------------------

\* largest number of fields that are null at once on a fetched record
MaxNulls == 2

\* number of read invocations in one behaviour
MaxReads == 2

\* longest fractional-second part of a remote timestamp
MaxFracDigits == 4

\* ------------------------------------------------------------------------
\* Values.  Every value is a record with a single distinguishing field, so
\* that values of different Go types are comparable and never equal.
\* ------------------------------------------------------------------------

Null == [null |-> TRUE]

StrV(s) == [str |-> s]

IntV(n) == [int |-> n]

BoolV(b) == [bool |-> b]

ListV(s) == [list |-> s]

MapV(f) == [map |-> f]

\* a strfmt.DateTime: second of the instant and its fractional digits
\* (trailing zeros are not significant for the instant)
Time(sec, frac) == [sec |-> sec, frac |-> frac]

\* a timestamp text: separator between date and time, the second, the
\* fractional digits as written, and the zone suffix
TimeText(sep, sec, frac, zone) == [ts |-> [sep |-> sep, sec |-> sec, frac |-> frac, zone |-> zone]]

IsNull(v) == v = Null

EmptyMap == [k \in {} |-> Null]

\* ------------------------------------------------------------------------
\* Timestamp conversions
\* ------------------------------------------------------------------------

\* the first three fractional digits, zero padded
Millis(frac) == [i \in 1..3 |-> IF i <= Len(frac) THEN frac[i] ELSE 0]

\* the RFC 3339 text the remote service sent for a DateTime
RemoteText(t) == TimeText("T", t.sec, t.frac, "Z")

\* strfmt.DateTime.String(): time.Format("2006-01-02T15:04:05.000Z07:00")
DateTimeString(t) == TimeText("T", t.sec, Millis(t.frac), "Z")


\* ------------------------------------------------------------------------
\* Helpers of package flex (not part of the two source files)
\* ------------------------------------------------------------------------

\* flex.IntValue: numeric unwrap-if-present of an optional integer
IntValue(p) == IF IsNull(p) THEN Null ELSE p

\* flex.DateTimeToString: timestamp formatting of an optional date
DateTimeToString(p) == IF IsNull(p) THEN Null ELSE DateTimeString(p)

\* one flattened entry per leaf of a free-form map; the key of a leaf is
\* the path to it (the dotted key "a.b" is the path <<"a", "b">>)
FlatKeys(m) ==
    {<<k>> : k \in {x \in DOMAIN m : "str" \in DOMAIN m[x]}}
    \cup UNION {{<<k, k2>> : k2 \in DOMAIN m[k].map} :
                    k \in {x \in DOMAIN m : "map" \in DOMAIN m[x]}}

\* flex.Flatten: generic flatten of a map[string]interface{}
Flatten(m) ==
    MapV([p \in FlatKeys(m) |->
            IF Len(p) = 1 THEN m[p[1]].str ELSE m[p[1]].map[p[2]].str])

\* ------------------------------------------------------------------------
\* Schemas
\* ------------------------------------------------------------------------

\* a schema.Schema literal; fields the literal leaves out have Go's zero
\* value (Optional false, MaxItems 0: no limit on the list length)
Computed(t) ==
    [type |-> t, required |-> FALSE, optional |-> FALSE, computed |-> TRUE,
     maxItems |-> 0]

Required(t) ==
    [type |-> t, required |-> TRUE, optional |-> FALSE, computed |-> FALSE,
     maxItems |-> 0]

\* the rotation record with unit declared as an optional input instead of
\* a computed attribute
RotationSchemaUnitOptional ==
    [auto_rotate |-> Computed("TypeBool"),
     interval    |-> Computed("TypeInt"),
     unit        |-> [type |-> "TypeString", required |-> FALSE,
                      optional |-> TRUE, computed |-> FALSE, maxItems |-> 0],
     rotate_keys |-> Computed("TypeBool")]

\* Elem of "rotation" (identical in both data sources)
RotationSchema ==
    [auto_rotate |-> Computed("TypeBool"),
     interval    |-> Computed("TypeInt"),
     unit        |-> Computed("TypeString"),
     rotate_keys |-> Computed("TypeBool")]

\* Elem of "validity"
ValiditySchema ==
    [not_before |-> Computed("TypeString"),
     not_after  |-> Computed("TypeString")]

\* DataSourceIbmSmPrivateCertificateMetadata().Schema
PrivateCertificateSchema ==
    [id                      |-> Required("TypeString"),
     created_by              |-> Computed("TypeString"),
     created_at              |-> Computed("TypeString"),
     crn                     |-> Computed("TypeString"),
     custom_metadata         |-> Computed("TypeMap"),
     description             |-> Computed("TypeString"),
     downloaded              |-> Computed("TypeBool"),
     labels                  |-> Computed("TypeList"),
     locks_total             |-> Computed("TypeInt"),
     name                    |-> Computed("TypeString"),
     secret_group_id         |-> Computed("TypeString"),
     secret_type             |-> Computed("TypeString"),
     state                   |-> Computed("TypeInt"),
     state_description       |-> Computed("TypeString"),
     updated_at              |-> Computed("TypeString"),
     versions_total          |-> Computed("TypeInt"),
     signing_algorithm       |-> Computed("TypeString"),
     alt_names               |-> Computed("TypeList"),
     certificate_authority   |-> Computed("TypeString"),
     certificate_template    |-> Computed("TypeString"),
     common_name             |-> Computed("TypeString"),
     expiration_date         |-> Computed("TypeString"),
     issuer                  |-> Computed("TypeString"),
     key_algorithm           |-> Computed("TypeString"),
     next_rotation_date      |-> Computed("TypeString"),
     rotation                |-> Computed("TypeList"),
     serial_number           |-> Computed("TypeString"),
     validity                |-> Computed("TypeList"),
     revocation_time_seconds |-> Computed("TypeInt"),
     revocation_time_rfc3339 |-> Computed("TypeString")]

\* DataSourceIbmSmUsernamePasswordSecretMetadata().Schema
UsernamePasswordSchema ==
    [id                 |-> Required("TypeString"),
     created_by         |-> Computed("TypeString"),
     created_at         |-> Computed("TypeString"),
     crn                |-> Computed("TypeString"),
     custom_metadata    |-> Computed("TypeMap"),
     description        |-> Computed("TypeString"),
     downloaded         |-> Computed("TypeBool"),
     labels             |-> Computed("TypeList"),
     locks_total        |-> Computed("TypeInt"),
     name               |-> Computed("TypeString"),
     secret_group_id    |-> Computed("TypeString"),
     secret_type        |-> Computed("TypeString"),
     state              |-> Computed("TypeInt"),
     state_description  |-> Computed("TypeString"),
     updated_at         |-> Computed("TypeString"),
     versions_total     |-> Computed("TypeInt"),
     rotation           |-> Computed("TypeList"),
     expiration_date    |-> Computed("TypeString"),
     next_rotation_date |-> Computed("TypeString")]

\* the two data sources
DataSources == {"PrivateCertificate", "UsernamePassword"}

SchemaOf(source) ==
    IF source = "PrivateCertificate" THEN PrivateCertificateSchema
    ELSE UsernamePasswordSchema

\* the nested schema of a list-of-records attribute
ElemSchema(key) == IF key = "validity" THEN ValiditySchema ELSE RotationSchema

\* attributes whose Elem is a nested record
NestedKeys == {"rotation", "validity"}


\* ------------------------------------------------------------------------
\* schema.ResourceData: the state ID and the attributes written so far
\* ------------------------------------------------------------------------

NoErr == "nil"

\* a fresh ResourceData, as handed to a read
NewResourceData == [id |-> Null, attrs |-> EmptyMap]

\* m with m[k] = v
Put(m, k, v) == [x \in DOMAIN m \cup {k} |-> IF x = k THEN v ELSE m[x]]

\* does a primitive value have the schema type t
PrimitiveFits(t, v) ==
    CASE t = "TypeString" -> "str" \in DOMAIN v \/ "ts" \in DOMAIN v
      [] t = "TypeInt"    -> "int" \in DOMAIN v
      [] t = "TypeBool"   -> "bool" \in DOMAIN v
      [] OTHER            -> FALSE

\* does value v have the type the schema declares for key
ValueFits(sch, key, v) ==
    CASE sch[key].type = "TypeMap"  -> "map" \in DOMAIN v
      [] sch[key].type = "TypeList" ->
            /\ "list" \in DOMAIN v
            /\ key \in NestedKeys =>
                 \A i \in 1..Len(v.list) :
                    /\ DOMAIN v.list[i] \subseteq DOMAIN ElemSchema(key)
                    /\ \A k \in DOMAIN v.list[i] :
                         PrimitiveFits(ElemSchema(key)[k].type, v.list[i][k])
      [] OTHER -> PrimitiveFits(sch[key].type, v)

\* the zero value of a schema type: what reads back from an attribute that
\* was set to nil
ZeroValue(t) ==
    CASE t = "TypeString" -> StrV("")
      [] t = "TypeInt"    -> IntV(0)
      [] t = "TypeBool"   -> BoolV(FALSE)
      [] t = "TypeList"   -> ListV(<<>>)
      [] OTHER            -> MapV(EmptyMap)

\* d.Set(key, value): a key that is not in the schema or a value of the
\* wrong type is an error; a nil pointer is written as nil, and the
\* attribute then exists with the zero value of its type
Set(d, sch, key, value) ==
    IF key \notin DOMAIN sch THEN [d |-> d, err |-> "invalid key"]
    ELSE IF IsNull(value)
         THEN [d   |-> [d EXCEPT !.attrs = Put(d.attrs, key, ZeroValue(sch[key].type))],
               err |-> NoErr]
    ELSE IF ~ValueFits(sch, key, value) THEN [d |-> d, err |-> "type mismatch"]
    ELSE [d |-> [d EXCEPT !.attrs = Put(d.attrs, key, value)], err |-> NoErr]

\* d.SetId(id)
SetId(d, id) == [d EXCEPT !.id = id]

\* ------------------------------------------------------------------------
\* Rotation policies and validity windows
\* ------------------------------------------------------------------------

UnrecognizedSubtype == "Unrecognized secretsmanagerv2.RotationPolicyIntf subtype encountered"

dataSourceIbmSmPrivateCertificateMetadataCommonRotationPolicyToMap(model) ==
    LET m0 == EmptyMap
        m1 == IF ~IsNull(model.AutoRotate) THEN Put(m0, "auto_rotate", model.AutoRotate) ELSE m0
        m2 == IF ~IsNull(model.Interval) THEN Put(m1, "interval", model.Interval) ELSE m1
        m3 == IF ~IsNull(model.Unit) THEN Put(m2, "unit", model.Unit) ELSE m2
    IN  [modelMap |-> m3, err |-> NoErr]

\* the public-certificate mapper without its rotate_keys block
PublicCertificateRotationPolicyToMapNoRotateKeys(model) ==
    LET m0 == EmptyMap
        m1 == IF ~IsNull(model.AutoRotate) THEN Put(m0, "auto_rotate", model.AutoRotate) ELSE m0
        m2 == IF ~IsNull(model.Interval) THEN Put(m1, "interval", model.Interval) ELSE m1
        m3 == IF ~IsNull(model.Unit) THEN Put(m2, "unit", model.Unit) ELSE m2
    IN  [modelMap |-> m3, err |-> NoErr]

dataSourceIbmSmPrivateCertificateMetadataPublicCertificateRotationPolicyToMap(model) ==
    LET m0 == EmptyMap
        m1 == IF ~IsNull(model.AutoRotate) THEN Put(m0, "auto_rotate", model.AutoRotate) ELSE m0
        m2 == IF ~IsNull(model.Interval) THEN Put(m1, "interval", model.Interval) ELSE m1
        m3 == IF ~IsNull(model.Unit) THEN Put(m2, "unit", model.Unit) ELSE m2
        m4 == IF ~IsNull(model.RotateKeys) THEN Put(m3, "rotate_keys", model.RotateKeys) ELSE m3
    IN  [modelMap |-> m4, err |-> NoErr]

\* the dispatch with a fallback that accepts an unknown type and returns
\* an empty map instead of an error
RotationPolicyToMapAcceptsUnknown(model) ==
    IF model.shape = "CommonRotationPolicy"
    THEN dataSourceIbmSmPrivateCertificateMetadataCommonRotationPolicyToMap(model)
    ELSE IF model.shape \in {"PublicCertificateRotationPolicy", "RotationPolicy"}
    THEN dataSourceIbmSmPrivateCertificateMetadataPublicCertificateRotationPolicyToMap(model)
    ELSE [modelMap |-> EmptyMap, err |-> NoErr]

dataSourceIbmSmPrivateCertificateMetadataRotationPolicyToMap(model) ==
    IF model.shape = "CommonRotationPolicy"
    THEN dataSourceIbmSmPrivateCertificateMetadataCommonRotationPolicyToMap(model)
    ELSE IF model.shape = "PublicCertificateRotationPolicy"
    THEN dataSourceIbmSmPrivateCertificateMetadataPublicCertificateRotationPolicyToMap(model)
    ELSE IF model.shape = "RotationPolicy"
    THEN LET m0 == EmptyMap
             m1 == IF ~IsNull(model.AutoRotate) THEN Put(m0, "auto_rotate", model.AutoRotate) ELSE m0
             m2 == IF ~IsNull(model.Interval) THEN Put(m1, "interval", model.Interval) ELSE m1
             m3 == IF ~IsNull(model.Unit) THEN Put(m2, "unit", model.Unit) ELSE m2
             m4 == IF ~IsNull(model.RotateKeys) THEN Put(m3, "rotate_keys", model.RotateKeys) ELSE m3
         IN  [modelMap |-> m4, err |-> NoErr]
    ELSE [modelMap |-> Null, err |-> UnrecognizedSubtype]

dataSourceIbmSmUsernamePasswordSecretMetadataCommonRotationPolicyToMap(model) ==
    LET m0 == EmptyMap
        m1 == IF ~IsNull(model.AutoRotate) THEN Put(m0, "auto_rotate", model.AutoRotate) ELSE m0
        m2 == IF ~IsNull(model.Interval) THEN Put(m1, "interval", model.Interval) ELSE m1
        m3 == IF ~IsNull(model.Unit) THEN Put(m2, "unit", model.Unit) ELSE m2
    IN  [modelMap |-> m3, err |-> NoErr]

dataSourceIbmSmUsernamePasswordSecretMetadataPublicCertificateRotationPolicyToMap(model) ==
    LET m0 == EmptyMap
        m1 == IF ~IsNull(model.AutoRotate) THEN Put(m0, "auto_rotate", model.AutoRotate) ELSE m0
        m2 == IF ~IsNull(model.Interval) THEN Put(m1, "interval", model.Interval) ELSE m1
        m3 == IF ~IsNull(model.Unit) THEN Put(m2, "unit", model.Unit) ELSE m2
        m4 == IF ~IsNull(model.RotateKeys) THEN Put(m3, "rotate_keys", model.RotateKeys) ELSE m3
    IN  [modelMap |-> m4, err |-> NoErr]

\* the dispatch sending a RotationPolicy through the common mapper
UsernamePasswordRotationPolicyToMapGenericAsCommon(model) ==
    IF model.shape \in {"CommonRotationPolicy", "RotationPolicy"}
    THEN dataSourceIbmSmUsernamePasswordSecretMetadataCommonRotationPolicyToMap(model)
    ELSE IF model.shape = "PublicCertificateRotationPolicy"
    THEN dataSourceIbmSmUsernamePasswordSecretMetadataPublicCertificateRotationPolicyToMap(model)
    ELSE [modelMap |-> Null, err |-> UnrecognizedSubtype]

dataSourceIbmSmUsernamePasswordSecretMetadataRotationPolicyToMap(model) ==
    IF model.shape = "CommonRotationPolicy"
    THEN dataSourceIbmSmUsernamePasswordSecretMetadataCommonRotationPolicyToMap(model)
    ELSE IF model.shape = "PublicCertificateRotationPolicy"
    THEN dataSourceIbmSmUsernamePasswordSecretMetadataPublicCertificateRotationPolicyToMap(model)
    ELSE IF model.shape = "RotationPolicy"
    THEN LET m0 == EmptyMap
             m1 == IF ~IsNull(model.AutoRotate) THEN Put(m0, "auto_rotate", model.AutoRotate) ELSE m0
             m2 == IF ~IsNull(model.Interval) THEN Put(m1, "interval", model.Interval) ELSE m1
             m3 == IF ~IsNull(model.Unit) THEN Put(m2, "unit", model.Unit) ELSE m2
             m4 == IF ~IsNull(model.RotateKeys) THEN Put(m3, "rotate_keys", model.RotateKeys) ELSE m3
         IN  [modelMap |-> m4, err |-> NoErr]
    ELSE [modelMap |-> Null, err |-> UnrecognizedSubtype]

\* the rotation-policy mapper of a data source
RotationPolicyToMap(source, model) ==
    IF source = "PrivateCertificate"
    THEN dataSourceIbmSmPrivateCertificateMetadataRotationPolicyToMap(model)
    ELSE dataSourceIbmSmUsernamePasswordSecretMetadataRotationPolicyToMap(model)

\* the validity mapper formatting with time.RFC3339 (no fractional digits
\* added) instead of DateTime.String()
CertificateValidityToMapVerbatim(model) ==
    LET m0 == EmptyMap
        m1 == IF ~IsNull(model.NotBefore) THEN Put(m0, "not_before", RemoteText(model.NotBefore)) ELSE m0
        m2 == IF ~IsNull(model.NotAfter) THEN Put(m1, "not_after", RemoteText(model.NotAfter)) ELSE m1
    IN  [modelMap |-> m2, err |-> NoErr]

dataSourceIbmSmPrivateCertificateMetadataCertificateValidityToMap(model) ==
    LET m0 == EmptyMap
        m1 == IF ~IsNull(model.NotBefore) THEN Put(m0, "not_before", DateTimeString(model.NotBefore)) ELSE m0
        m2 == IF ~IsNull(model.NotAfter) THEN Put(m1, "not_after", DateTimeString(model.NotAfter)) ELSE m1
    IN  [modelMap |-> m2, err |-> NoErr]


\* ------------------------------------------------------------------------
\* The attribute assignments of the two reads, in source order
\* ------------------------------------------------------------------------

Step(key, conv, field) == [key |-> key, conv |-> conv, field |-> field]

\* dataSourceIbmSmPrivateCertificateMetadataRead, the statements after d.SetId
PrivateCertificateSteps ==
    << Step("created_by", "ptr", "CreatedBy"),
       Step("created_at", "date", "CreatedAt"),
       Step("crn", "ptr", "Crn"),
       Step("custom_metadata", "custom_metadata", "CustomMetadata"),
       Step("description", "ptr", "Description"),
       Step("downloaded", "ptr", "Downloaded"),
       Step("locks_total", "int", "LocksTotal"),
       Step("name", "ptr", "Name"),
       Step("secret_group_id", "ptr", "SecretGroupID"),
       Step("secret_type", "ptr", "SecretType"),
       Step("state", "int", "State"),
       Step("state_description", "ptr", "StateDescription"),
       Step("updated_at", "date", "UpdatedAt"),
       Step("versions_total", "int", "VersionsTotal"),
       Step("signing_algorithm", "ptr", "SigningAlgorithm"),
       Step("certificate_authority", "ptr", "CertificateAuthority"),
       Step("certificate_template", "ptr", "CertificateTemplate"),
       Step("common_name", "ptr", "CommonName"),
       Step("expiration_date", "date", "ExpirationDate"),
       Step("issuer", "ptr", "Issuer"),
       Step("key_algorithm", "ptr", "KeyAlgorithm"),
       Step("next_rotation_date", "date", "NextRotationDate"),
       Step("rotation", "rotation", "Rotation"),
       Step("serial_number", "ptr", "SerialNumber"),
       Step("validity", "validity", "Validity"),
       Step("revocation_time_seconds", "int", "RevocationTimeSeconds"),
       Step("revocation_time_rfc3339", "date", "RevocationTimeRfc3339") >>

\* the statements followed by d.Set("id", secretMetadata.ID)
UsernamePasswordStepsWritingId ==
    << Step("created_by", "ptr", "CreatedBy"),
       Step("created_at", "date", "CreatedAt"),
       Step("crn", "ptr", "Crn"),
       Step("custom_metadata", "custom_metadata", "CustomMetadata"),
       Step("description", "ptr", "Description"),
       Step("downloaded", "ptr", "Downloaded"),
       Step("locks_total", "int", "LocksTotal"),
       Step("name", "ptr", "Name"),
       Step("secret_group_id", "ptr", "SecretGroupID"),
       Step("secret_type", "ptr", "SecretType"),
       Step("state", "int", "State"),
       Step("state_description", "ptr", "StateDescription"),
       Step("updated_at", "date", "UpdatedAt"),
       Step("versions_total", "int", "VersionsTotal"),
       Step("rotation", "rotation", "Rotation"),
       Step("expiration_date", "date", "ExpirationDate"),
       Step("next_rotation_date", "date", "NextRotationDate"),
       Step("id", "ptr", "ID") >>

\* dataSourceIbmSmUsernamePasswordSecretMetadataRead, the statements after d.SetId
UsernamePasswordSteps ==
    << Step("created_by", "ptr", "CreatedBy"),
       Step("created_at", "date", "CreatedAt"),
       Step("crn", "ptr", "Crn"),
       Step("custom_metadata", "custom_metadata", "CustomMetadata"),
       Step("description", "ptr", "Description"),
       Step("downloaded", "ptr", "Downloaded"),
       Step("locks_total", "int", "LocksTotal"),
       Step("name", "ptr", "Name"),
       Step("secret_group_id", "ptr", "SecretGroupID"),
       Step("secret_type", "ptr", "SecretType"),
       Step("state", "int", "State"),
       Step("state_description", "ptr", "StateDescription"),
       Step("updated_at", "date", "UpdatedAt"),
       Step("versions_total", "int", "VersionsTotal"),
       Step("rotation", "rotation", "Rotation"),
       Step("expiration_date", "date", "ExpirationDate"),
       Step("next_rotation_date", "date", "NextRotationDate") >>

StepsOf(source) ==
    IF source = "PrivateCertificate" THEN PrivateCertificateSteps
    ELSE UsernamePasswordSteps

\* the concrete metadata type a read asserts the response to be
ExpectedShape(source) ==
    IF source = "PrivateCertificate" THEN "PrivateCertificateMetadata"
    ELSE "UsernamePasswordSecretMetadata"

\* ------------------------------------------------------------------------
\* Outcome of a read: the diagnostics it returns
\* ------------------------------------------------------------------------

\* return nil
NoDiag == [kind |-> "none", key |-> "", cause |-> "", response |-> ""]

\* diag.FromErr(err) at each of the places a read returns an error
Diag(kind, key, cause, response) ==
    [kind |-> kind, key |-> key, cause |-> cause, response |-> response]

\* if err = d.Set(key, v); err != nil { return diag.FromErr("Error setting key: err") }
Assign(d, sch, key, v) ==
    LET r == Set(d, sch, key, v)
    IN  [d    |-> r.d,
         diag |-> IF r.err = NoErr THEN NoDiag ELSE Diag("assign", key, r.err, "")]

\* the guarded custom_metadata block
AssignCustomMetadata(d, sch, meta) ==
    IF ~IsNull(meta.CustomMetadata)
    THEN Assign(d, sch, "custom_metadata", Flatten(meta.CustomMetadata.map))
    ELSE [d |-> d, diag |-> NoDiag]

\* the rotation block writing the empty list before it returns the
\* mapper's error
AssignRotationWritesOnError(ds, d, sch, meta) ==
    IF ~IsNull(meta.Rotation)
    THEN LET r == RotationPolicyToMap(ds, meta.Rotation)
         IN  IF r.err # NoErr
             THEN [d    |-> Assign(d, sch, "rotation", ListV(<<>>)).d,
                   diag |-> Diag("rotation", "rotation", r.err, "")]
             ELSE Assign(d, sch, "rotation", ListV(<<r.modelMap>>))
    ELSE Assign(d, sch, "rotation", ListV(<<>>))

\* the rotation block: an empty list, or the one mapped policy
AssignRotation(ds, d, sch, meta) ==
    IF ~IsNull(meta.Rotation)
    THEN LET r == RotationPolicyToMap(ds, meta.Rotation)
         IN  IF r.err # NoErr
             THEN [d |-> d, diag |-> Diag("rotation", "rotation", r.err, "")]
             ELSE Assign(d, sch, "rotation", ListV(<<r.modelMap>>))
    ELSE Assign(d, sch, "rotation", ListV(<<>>))

\* the validity block appending one record per bound instead of one record
\* for the window
AssignValidityRecordPerBound(d, sch, meta) ==
    IF ~IsNull(meta.Validity)
    THEN LET r == dataSourceIbmSmPrivateCertificateMetadataCertificateValidityToMap(meta.Validity)
             m == r.modelMap
             recs == [i \in 1..Cardinality(DOMAIN m) |->
                        LET k == IF i = 1 /\ "not_before" \in DOMAIN m
                                 THEN "not_before" ELSE "not_after"
                        IN  [x \in {k} |-> m[k]]]
         IN  Assign(d, sch, "validity", ListV(recs))
    ELSE Assign(d, sch, "validity", ListV(<<>>))

\* the validity block: an empty list, or the one mapped window
AssignValidity(d, sch, meta) ==
    IF ~IsNull(meta.Validity)
    THEN LET r == dataSourceIbmSmPrivateCertificateMetadataCertificateValidityToMap(meta.Validity)
         IN  IF r.err # NoErr
             THEN [d |-> d, diag |-> Diag("validity", "validity", r.err, "")]
             ELSE Assign(d, sch, "validity", ListV(<<r.modelMap>>))
    ELSE Assign(d, sch, "validity", ListV(<<>>))

\* the attribute statements with the sources of state and versions_total
\* exchanged
AssignStepSwapsCounters(ds, d, meta, st) ==
    LET sch == SchemaOf(ds)
        fld == CASE st.key = "state" -> "VersionsTotal"
                 [] st.key = "versions_total" -> "State"
                 [] OTHER -> st.field
    IN  CASE st.conv = "ptr"  -> Assign(d, sch, st.key, meta[fld])
          [] st.conv = "date" -> Assign(d, sch, st.key, DateTimeToString(meta[fld]))
          [] st.conv = "int"  -> Assign(d, sch, st.key, IntValue(meta[fld]))
          [] st.conv = "custom_metadata" -> AssignCustomMetadata(d, sch, meta)
          [] st.conv = "rotation" -> AssignRotation(ds, d, sch, meta)
          [] st.conv = "validity" -> AssignValidity(d, sch, meta)

\* one attribute statement of a read
AssignStep(ds, d, meta, st) ==
    LET sch == SchemaOf(ds)
    IN  CASE st.conv = "ptr"  -> Assign(d, sch, st.key, meta[st.field])
          [] st.conv = "date" -> Assign(d, sch, st.key, DateTimeToString(meta[st.field]))
          [] st.conv = "int"  -> Assign(d, sch, st.key, IntValue(meta[st.field]))
          [] st.conv = "custom_metadata" -> AssignCustomMetadata(d, sch, meta)
          [] st.conv = "rotation" -> AssignRotation(ds, d, sch, meta)
          [] st.conv = "validity" -> AssignValidity(d, sch, meta)


\* ------------------------------------------------------------------------
\* Remote metadata records
\* ------------------------------------------------------------------------

\* fields of secretsmanagerv2.UsernamePasswordSecretMetadata used here
UsernamePasswordFields ==
    {"ID", "CreatedBy", "CreatedAt", "Crn", "CustomMetadata", "Description",
     "Downloaded", "Labels", "LocksTotal", "Name", "SecretGroupID",
     "SecretType", "State", "StateDescription", "UpdatedAt", "VersionsTotal",
     "Rotation", "ExpirationDate", "NextRotationDate"}

\* fields of secretsmanagerv2.PrivateCertificateMetadata
PrivateCertificateFields ==
    UsernamePasswordFields \cup
    {"SigningAlgorithm", "AltNames", "CertificateAuthority",
     "CertificateTemplate", "CommonName", "Issuer", "KeyAlgorithm",
     "SerialNumber", "Validity", "RevocationTimeSeconds",
     "RevocationTimeRfc3339"}

FieldsOf(shape) ==
    IF shape = "PrivateCertificateMetadata" THEN PrivateCertificateFields
    ELSE UsernamePasswordFields

MetadataShapes == {"PrivateCertificateMetadata", "UsernamePasswordSecretMetadata"}

\* fractional-second parts of remote timestamps
Fracs == {[i \in 1..n |-> dg] : n \in 0..MaxFracDigits, dg \in {0, 5}}

\* remote timestamps; second 0 is 2023-01-01T00:00:00Z, second 1 is
\* 2024-01-01T00:00:00Z
DateTimes == {Time(sec, f) : sec \in {0, 1}, f \in Fracs}

\* rotation policies: the three known shapes with every combination of
\* null and non-null fields, and one value of an unknown type
RotationPolicies ==
    {[shape |-> "CommonRotationPolicy", AutoRotate |-> a, Interval |-> i, Unit |-> u] :
        a \in {Null, BoolV(TRUE), BoolV(FALSE)}, i \in {Null, IntV(1)},
        u \in {Null, StrV("day")}}
    \cup
    {[shape |-> sh, AutoRotate |-> a, Interval |-> i, Unit |-> u, RotateKeys |-> k] :
        sh \in {"PublicCertificateRotationPolicy", "RotationPolicy"},
        a \in {Null, BoolV(TRUE), BoolV(FALSE)}, i \in {Null, IntV(1)},
        u \in {Null, StrV("day")}, k \in {Null, BoolV(TRUE)}}
    \cup
    {[shape |-> "OtherRotationPolicy"]}

\* validity windows
Validities ==
    {[NotBefore |-> nb, NotAfter |-> na] :
        nb \in DateTimes \cup {Null}, na \in DateTimes \cup {Null}}

\* free-form custom metadata: empty, flat, nested
CustomMetas ==
    {MapV(EmptyMap),
     MapV([k \in {"team"} |-> StrV("sec")]),
     MapV([k \in {"team", "owner"} |->
            IF k = "team" THEN StrV("sec")
            ELSE MapV([k2 \in {"mail"} |-> StrV("a@b")])])}

\* a record of the given shape with every field set
FullValue(f) ==
    CASE f = "ID" -> StrV("secret-123")
      [] f \in {"CreatedAt", "ExpirationDate"} -> Time(0, <<>>)
      [] f \in {"UpdatedAt", "NextRotationDate"} -> Time(1, <<>>)
      [] f = "RevocationTimeRfc3339" -> Time(1, <<5>>)
      [] f = "LocksTotal" -> IntV(0)
      [] f = "State" -> IntV(1)
      [] f = "VersionsTotal" -> IntV(2)
      [] f = "RevocationTimeSeconds" -> IntV(7)
      [] f = "Downloaded" -> BoolV(TRUE)
      [] f = "Labels" -> ListV(<<"dev", "eu">>)
      [] f = "AltNames" -> ListV(<<"alt.example.com">>)
      [] f = "CustomMetadata" -> MapV([k \in {"team"} |-> StrV("sec")])
      [] f = "Rotation" ->
            [shape |-> "CommonRotationPolicy", AutoRotate |-> BoolV(TRUE),
             Interval |-> IntV(1), Unit |-> StrV("day")]
      [] f = "Validity" -> [NotBefore |-> Time(0, <<>>), NotAfter |-> Time(1, <<>>)]
      [] OTHER -> StrV(f)

\* the record of a shape, its fields taken from over where given, from the
\* full record elsewhere
Metadata(shape, over) ==
    [f \in FieldsOf(shape) \cup {"shape"} |->
        IF f = "shape" THEN shape
        ELSE IF f \in DOMAIN over THEN over[f]
        ELSE FullValue(f)]

RECURSIVE SubsetsUpTo(_, _)
\* the subsets of S with at most k elements
SubsetsUpTo(S, k) ==
    IF k = 0 THEN {{}}
    ELSE LET prev == SubsetsUpTo(S, k - 1)
         IN  prev \cup {p \cup {x} : p \in prev, x \in S}

\* records the remote service may return: the full record with a few
\* fields null, with each rotation policy, validity window and custom
\* metadata, and the record with every optional field null
MetadataRecords(shape) ==
    {Metadata(shape, [f \in nulls |-> Null]) :
        nulls \in SubsetsUpTo(FieldsOf(shape), MaxNulls)}
    \cup {Metadata(shape, [f \in {"Rotation"} |-> r]) : r \in RotationPolicies}
    \cup {Metadata(shape, [f \in {"CustomMetadata"} |-> c]) : c \in CustomMetas}
    \cup {Metadata(shape, [f \in FieldsOf(shape) \ {"ID"} |-> Null])}
    \cup IF shape = "PrivateCertificateMetadata"
         THEN {Metadata(shape, [f \in {"Validity"} |-> v]) : v \in Validities}
         ELSE {}

\* what GetSecretMetadataWithContext may return to a data source: a record
\* of the shape it expects, or the full record of the other shape
ResponsesFor(source) ==
    MetadataRecords(ExpectedShape(source))
    \cup {Metadata(sh, EmptyMap) : sh \in MetadataShapes \ {ExpectedShape(source)}}

PrivateCertificateResponses == ResponsesFor("PrivateCertificate")

UsernamePasswordResponses == ResponsesFor("UsernamePassword")

Responses(source) ==
    IF source = "PrivateCertificate" THEN PrivateCertificateResponses
    ELSE UsernamePasswordResponses

\* identifiers a configuration may supply
CallerIds == {"secret-123", "secret-456"}

\* errors of conns.ClientSession.SecretsManagerV2()
SessionErrors == {"no api key"}

\* errors of the remote call with the response that comes with them
\* (no response on a network failure)
NoFailure == [err |-> "", response |-> ""]

RemoteFailures ==
    {[err |-> "connection refused", response |-> "<nil>"],
     [err |-> "not found", response |-> "404 Not Found"]}


\* ------------------------------------------------------------------------
\* The read as a state machine
\* ------------------------------------------------------------------------

VARIABLES
    pc,         \* position of the current read
    ds,         \* the data source being read
    callerId,   \* d.Get("id"), the identifier of the configuration
    d,          \* the ResourceData of the current read
    meta,       \* the record the remote call returned, Null before that
    step,       \* index of the next attribute statement
    diags,      \* what the read returned
    calls,      \* identifiers passed to GetSecretMetadataWithContext so far
    failed,     \* the failure the remote call of this read returned, if any
    reads       \* number of reads started

vars == <<pc, ds, callerId, d, meta, step, diags, calls, failed, reads>>

Init ==
    /\ pc = "idle"
    /\ ds = "PrivateCertificate"
    /\ callerId = "secret-123"
    /\ d = NewResourceData
    /\ meta = Null
    /\ step = 0
    /\ diags = NoDiag
    /\ calls = <<>>
    /\ failed = NoFailure
    /\ reads = 0

\* the runtime invokes ReadContext with a fresh ResourceData
Invoke(source, id) ==
    /\ pc \in {"idle", "returned", "panicked"}
    /\ reads < MaxReads
    /\ pc' = "session"
    /\ ds' = source
    /\ callerId' = id
    /\ d' = NewResourceData
    /\ meta' = Null
    /\ step' = 0
    /\ diags' = NoDiag
    /\ calls' = <<>>
    /\ failed' = NoFailure
    /\ reads' = reads + 1

\* meta.(conns.ClientSession).SecretsManagerV2() returns a client
SessionOk ==
    /\ pc = "session"
    /\ pc' = "fetch"
    /\ UNCHANGED <<ds, callerId, d, meta, step, diags, calls, failed, reads>>

\* ... or an error: return diag.FromErr(err)
SessionFail(e) ==
    /\ pc = "session"
    /\ pc' = "returned"
    /\ diags' = Diag("session", "", e, "")
    /\ UNCHANGED <<ds, callerId, d, meta, step, calls, failed, reads>>

\* GetSecretMetadataWithContext is called with the configured id: the
\* request is made and the read waits for the response
FetchCall ==
    /\ pc = "fetch"
    /\ calls' = Append(calls, callerId)
    /\ pc' = "waiting"
    /\ UNCHANGED <<ds, callerId, d, meta, step, diags, failed, reads>>

\* GetSecretMetadataWithContext returns a record
FetchOk ==
    /\ pc = "waiting"
    /\ \E rec \in Responses(ds) : meta' = rec
    /\ pc' = "assert"
    /\ UNCHANGED <<ds, callerId, d, step, diags, calls, failed, reads>>

\* the fetch error returned without the response
FetchFailDropsResponse(f) ==
    /\ pc = "waiting"
    /\ failed' = f
    /\ diags' = Diag("fetch", "", f.err, "")
    /\ pc' = "returned"
    /\ UNCHANGED <<ds, callerId, d, meta, step, calls, reads>>

\* the fetch called a second time before its error is returned
FetchFailRetriesOnce(f) ==
    /\ pc = "waiting"
    /\ IF Len(calls) = 1
       THEN /\ calls' = Append(calls, callerId)
            /\ UNCHANGED <<pc, diags, failed>>
       ELSE /\ failed' = f
            /\ diags' = Diag("fetch", "", f.err, f.response)
            /\ pc' = "returned"
            /\ UNCHANGED calls
    /\ UNCHANGED <<ds, callerId, d, meta, step, reads>>

\* ... or an error: return the error wrapped with the response
FetchFail(f) ==
    /\ pc = "waiting"
    /\ failed' = f
    /\ diags' = Diag("fetch", "", f.err, f.response)
    /\ pc' = "returned"
    /\ UNCHANGED <<ds, callerId, d, meta, step, calls, reads>>

\* the type assertion to the concrete metadata type succeeds
TypeAssertOk ==
    /\ pc = "assert"
    /\ meta.shape = ExpectedShape(ds)
    /\ pc' = "setid"
    /\ UNCHANGED <<ds, callerId, d, meta, step, diags, calls, failed, reads>>

\* a checked assertion (the two-value form) that returns an error to the
\* caller when the type is not the expected one
TypeAssertReturnsError ==
    /\ pc = "assert"
    /\ meta.shape # ExpectedShape(ds)
    /\ diags' = Diag("assert", "", "unexpected metadata type", "")
    /\ pc' = "returned"
    /\ UNCHANGED <<ds, callerId, d, meta, step, calls, failed, reads>>

\* ... or panics
TypeAssertPanic ==
    /\ pc = "assert"
    /\ meta.shape # ExpectedShape(ds)
    /\ pc' = "panicked"
    /\ UNCHANGED <<ds, callerId, d, meta, step, diags, calls, failed, reads>>

\* d.SetId(*metadata.ID)
\* variant: d.SetId(d.Get("id")), the configured id
SetIdOkFromConfig ==
    /\ pc = "setid"
    /\ ~IsNull(meta.ID)
    /\ d' = SetId(d, StrV(callerId))
    /\ pc' = "attrs"
    /\ step' = 1
    /\ UNCHANGED <<ds, callerId, meta, diags, calls, failed, reads>>

SetIdOk ==
    /\ pc = "setid"
    /\ ~IsNull(meta.ID)
    /\ d' = SetId(d, meta.ID)
    /\ pc' = "attrs"
    /\ step' = 1
    /\ UNCHANGED <<ds, callerId, meta, diags, calls, failed, reads>>

\* ... the dereference of a nil ID panics
SetIdPanic ==
    /\ pc = "setid"
    /\ IsNull(meta.ID)
    /\ pc' = "panicked"
    /\ UNCHANGED <<ds, callerId, d, meta, step, diags, calls, failed, reads>>

\* the next attribute statement succeeds
AttrOk ==
    /\ pc = "attrs"
    /\ step <= Len(StepsOf(ds))
    /\ LET r == AssignStep(ds, d, meta, StepsOf(ds)[step])
       IN  /\ r.diag = NoDiag
           /\ d' = r.d
    /\ step' = step + 1
    /\ UNCHANGED <<pc, ds, callerId, meta, diags, calls, failed, reads>>

\* a failing statement whose error is recorded while the read goes on with
\* the next statement
AttrFailContinues ==
    /\ pc = "attrs"
    /\ step <= Len(StepsOf(ds))
    /\ LET r == AssignStep(ds, d, meta, StepsOf(ds)[step])
       IN  /\ r.diag # NoDiag
           /\ d' = r.d
           /\ diags' = r.diag
    /\ step' = step + 1
    /\ UNCHANGED <<pc, ds, callerId, meta, calls, failed, reads>>

\* ... or fails: return its error
AttrFail ==
    /\ pc = "attrs"
    /\ step <= Len(StepsOf(ds))
    /\ LET r == AssignStep(ds, d, meta, StepsOf(ds)[step])
       IN  /\ r.diag # NoDiag
           /\ d' = r.d
           /\ diags' = r.diag
    /\ pc' = "returned"
    /\ UNCHANGED <<ds, callerId, meta, step, calls, failed, reads>>

\* return nil
ReturnNil ==
    /\ pc = "attrs"
    /\ step = Len(StepsOf(ds)) + 1
    /\ pc' = "returned"
    /\ UNCHANGED <<ds, callerId, d, meta, step, diags, calls, failed, reads>>

Next ==
    \/ \E source \in DataSources, id \in CallerIds : Invoke(source, id)
    \/ SessionOk
    \/ \E e \in SessionErrors : SessionFail(e)
    \/ FetchCall
    \/ FetchOk
    \/ \E f \in RemoteFailures : FetchFail(f)
    \/ TypeAssertOk
    \/ TypeAssertPanic
    \/ SetIdOk
    \/ SetIdPanic
    \/ AttrOk
    \/ AttrFail
    \/ ReturnNil

Spec == Init /\ [][Next]_vars


\* ------------------------------------------------------------------------
\* Vocabulary of the properties
\* ------------------------------------------------------------------------

\* the read has returned without error
ReadSucceeded == pc = "returned" /\ diags = NoDiag

\* the read has returned an error
ReadFailed == pc = "returned" /\ diags # NoDiag

\* has attribute key been written
IsSet(key) == key \in DOMAIN d.attrs

\* index of the statement that assigns key in the read of source
StepIndex(source, key) ==
    CHOOSE i \in 1..Len(StepsOf(source)) : StepsOf(source)[i].key = key

\* keys assigned by the statements before statement i
KeysBefore(source, i) == {StepsOf(source)[j].key : j \in 1..(i - 1)}

\* the attribute a field of the record is exposed under
AttrOfField(f) ==
    CASE f = "ID" -> "id"
      [] f = "Labels" -> "labels"
      [] f = "AltNames" -> "alt_names"
      [] OTHER ->
            LET st == PrivateCertificateSteps
            IN  st[CHOOSE i \in 1..Len(st) : st[i].field = f].key

\* fields whose value is a date
DateFields ==
    {"CreatedAt", "UpdatedAt", "ExpirationDate", "NextRotationDate",
     "RevocationTimeRfc3339"}

\* the value a non-null field is expected to show as: dates formatted,
\* custom metadata flattened, a nested record as a one-element list
ShownValue(source, f, v) ==
    CASE f \in DateFields -> DateTimeToString(v)
      [] f = "CustomMetadata" -> Flatten(v.map)
      [] f = "Rotation" -> ListV(<<RotationPolicyToMap(source, v).modelMap>>)
      [] f = "Validity" ->
            ListV(<<dataSourceIbmSmPrivateCertificateMetadataCertificateValidityToMap(v).modelMap>>)
      [] OTHER -> v

\* ------------------------------------------------------------------------
\* C1
\* ------------------------------------------------------------------------

\* C1: after a read that returned no error, every non-null field of the
\* fetched record that has an attribute declared in the schema (labels and
\* alt_names included) is present under its attribute name with an equal
\* value, or the formatted value for dates.
C1_EveryDeclaredFieldShown ==
    ReadSucceeded =>
        \A f \in FieldsOf(meta.shape) :
            (~IsNull(meta[f]) /\ AttrOfField(f) \in DOMAIN SchemaOf(ds)) =>
                IF f = "ID" THEN d.id = meta.ID
                ELSE /\ IsSet(AttrOfField(f))
                     /\ d.attrs[AttrOfField(f)] = ShownValue(ds, f, meta[f])


\* ------------------------------------------------------------------------
\* C2
\* ------------------------------------------------------------------------

\* fields a read copies as a scalar, a date, an integer or custom metadata
OptionalFields(source) ==
    {StepsOf(source)[i].field : i \in
        {j \in 1..Len(StepsOf(source)) :
            StepsOf(source)[j].conv \in {"ptr", "date", "int", "custom_metadata"}}}

\* C2: after a successful read, every optional field (integer, date,
\* string, boolean, custom metadata) that is null on the fetched record is
\* unset in the output state: no zero, empty string or other default is
\* written for it.
C2_NullFieldsUnset ==
    ReadSucceeded =>
        \A f \in OptionalFields(ds) :
            IsNull(meta[f]) => ~IsSet(AttrOfField(f))

\* ------------------------------------------------------------------------
\* C3
\* ------------------------------------------------------------------------

\* C3: when the remote fetch returns an error, the read returns an error
\* that carries the remote error and the response, and neither the state ID
\* nor any attribute has been written.
C3_FetchErrorReturned ==
    failed # NoFailure =>
        /\ pc = "returned"
        /\ diags.kind = "fetch"
        /\ diags.cause = failed.err
        /\ diags.response = failed.response
        /\ d = NewResourceData

\* a read that ended on a non-2xx response
C3_Witness ==
    /\ pc = "returned"
    /\ failed = [err |-> "not found", response |-> "404 Not Found"]
    /\ diags.response = "404 Not Found"

\* ------------------------------------------------------------------------
\* C4
\* ------------------------------------------------------------------------

\* C4 as stated: whenever a read returns an error, at whichever point it
\* fails, the state holds no ID and no attribute written by that read.
C4_NoPartialState ==
    ReadFailed => d = NewResourceData

\* C4 amended: a read that fails at session acquisition or at the remote
\* fetch leaves no ID and no attribute; a read that fails later (an
\* attribute assignment or an unrecognized rotation variant) leaves the ID
\* of the fetched record and only attributes of statements that precede the
\* failing one.
C4_PartialStateIsPrefix ==
    ReadFailed =>
        /\ diags.kind \in {"session", "fetch"} => d = NewResourceData
        /\ diags.kind \notin {"session", "fetch"} =>
              /\ d.id = meta.ID
              /\ ~IsNull(d.id)
              /\ StepsOf(ds)[step].key = diags.key
              /\ DOMAIN d.attrs \subseteq KeysBefore(ds, step)

\* a read that failed on an unrecognized rotation variant after it had
\* written the ID and the attributes before rotation
C4_Witness ==
    /\ ReadFailed
    /\ diags.kind = "rotation"
    /\ ~IsNull(d.id)
    /\ IsSet("created_by")
    /\ IsSet("versions_total")

\* ------------------------------------------------------------------------
\* C5
\* ------------------------------------------------------------------------

\* C5: in every execution of a read the remote fetch is invoked at most
\* once, exactly once when session acquisition succeeded, and never again
\* after it has failed.
C5_FetchOnce ==
    /\ Len(calls) <= 1
    /\ pc \in {"session", "fetch"} => calls = <<>>
    /\ pc \in {"waiting", "assert", "setid", "attrs", "panicked"} => Len(calls) = 1
    /\ (pc = "returned" /\ diags.kind # "session") => Len(calls) = 1
    /\ (pc = "returned" /\ diags.kind = "session") => calls = <<>>
    /\ failed # NoFailure => (pc = "returned" /\ Len(calls) = 1)
    /\ \A i \in 1..Len(calls) : calls[i] = callerId

\* a read whose only remote call failed
C5_Witness ==
    /\ pc = "returned"
    /\ failed # NoFailure
    /\ calls = <<callerId>>


\* ------------------------------------------------------------------------
\* C6
\* ------------------------------------------------------------------------

\* the rotation shapes the mappers know
KnownRotationShapes ==
    {"CommonRotationPolicy", "PublicCertificateRotationPolicy", "RotationPolicy"}

\* the field of a rotation policy behind each key of the mapped record
RotationFieldOf ==
    [auto_rotate |-> "AutoRotate", interval |-> "Interval", unit |-> "Unit",
     rotate_keys |-> "RotateKeys"]

\* keys of the fields that exist and are non-null on a rotation policy
NonNullRotationKeys(model) ==
    {k \in DOMAIN RotationFieldOf :
        /\ RotationFieldOf[k] \in DOMAIN model
        /\ ~IsNull(model[RotationFieldOf[k]])}

\* the rotation statement of the current read has mapped a policy
RotationMapped ==
    /\ IsSet("rotation")
    /\ d.attrs["rotation"].list # <<>>

\* C6: for a policy of any of the three known shapes, the mapped record has
\* exactly the non-null fields of the policy as keys, with their values;
\* the record of a generic policy never has rotate_keys, the record of a
\* certificate policy has it whenever the field is non-null.
C6_MapperKeysAreNonNullFields ==
    RotationMapped =>
        LET model == meta.Rotation
            m == d.attrs["rotation"].list[1]
        IN  /\ model.shape \in KnownRotationShapes
            /\ DOMAIN m = NonNullRotationKeys(model)
            /\ \A k \in DOMAIN m : m[k] = model[RotationFieldOf[k]]
            /\ model.shape = "CommonRotationPolicy" => "rotate_keys" \notin DOMAIN m
            /\ (model.shape # "CommonRotationPolicy" /\ ~IsNull(model.RotateKeys))
                  => "rotate_keys" \in DOMAIN m

\* a public-certificate policy mapped with rotate_keys and without unit
C6_Witness ==
    /\ RotationMapped
    /\ meta.Rotation.shape = "PublicCertificateRotationPolicy"
    /\ DOMAIN d.attrs["rotation"].list[1] = {"auto_rotate", "interval", "rotate_keys"}

\* ------------------------------------------------------------------------
\* C7
\* ------------------------------------------------------------------------

\* the fetched record holds a rotation policy of an unknown shape
UnknownRotation ==
    /\ ~IsNull(meta)
    /\ meta.shape = ExpectedShape(ds)
    /\ ~IsNull(meta.Rotation)
    /\ meta.Rotation.shape \notin KnownRotationShapes

\* C7: for a policy of an unknown shape the mapper returns an error and a
\* null map, and the read returns that error without writing rotation.
C7_UnknownShapeIsError ==
    UnknownRotation =>
        /\ RotationPolicyToMap(ds, meta.Rotation) =
                [modelMap |-> Null, err |-> UnrecognizedSubtype]
        /\ ~IsSet("rotation")
        /\ pc = "attrs" => step <= StepIndex(ds, "rotation")
        /\ pc = "returned" =>
              /\ diags.kind = "rotation"
              /\ diags.cause = UnrecognizedSubtype

\* a read that returned the mapper's error
C7_Witness ==
    /\ UnknownRotation
    /\ pc = "returned"
    /\ diags.cause = UnrecognizedSubtype
    /\ ~IsSet("rotation")

\* ------------------------------------------------------------------------
\* C8
\* ------------------------------------------------------------------------

\* the record of the scenario: state 1, versions_total 2, no rotation
ScenarioRecord ==
    /\ ~IsNull(meta)
    /\ meta.State = IntV(1)
    /\ meta.VersionsTotal = IntV(2)
    /\ IsNull(meta.Rotation)

\* C8: a successful read of a record with state=1, versions_total=2 and a
\* null rotation policy yields state=1, versions_total=2 and a rotation
\* attribute that is absent or an empty list.
C8_Scenario ==
    (ReadSucceeded /\ ScenarioRecord) =>
        /\ IsSet("state") /\ d.attrs["state"] = IntV(1)
        /\ IsSet("versions_total") /\ d.attrs["versions_total"] = IntV(2)
        /\ IsSet("rotation") => d.attrs["rotation"] = ListV(<<>>)

\* the scenario read to its end by the username/password data source
C8_Witness ==
    /\ ReadSucceeded
    /\ ScenarioRecord
    /\ ds = "UsernamePassword"
    /\ callerId = "secret-123"
    /\ d.attrs["rotation"] = ListV(<<>>)

\* ------------------------------------------------------------------------
\* C9
\* ------------------------------------------------------------------------

\* the validity statement has run on a window with both bounds
ValidityMapped ==
    /\ IsSet("validity")
    /\ ~IsNull(meta.Validity)

\* the timestamp text v denotes instant t in RFC 3339 with exactly three
\* fractional digits
IsMillisTextOf(v, t) ==
    /\ "ts" \in DOMAIN v
    /\ v.ts.sep = "T"
    /\ v.ts.zone = "Z"
    /\ v.ts.sec = t.sec
    /\ Len(v.ts.frac) = 3
    /\ \A i \in 1..3 : v.ts.frac[i] = IF i <= Len(t.frac) THEN t.frac[i] ELSE 0

\* C9 as stated: a validity window is mapped to exactly one record that
\* holds each non-null bound with the same timestamp text as on the remote
\* record; a null bound is left out.
C9_ValidityVerbatim ==
    ValidityMapped =>
        LET v == meta.Validity
            l == d.attrs["validity"].list
        IN  /\ Len(l) = 1
            /\ ("not_before" \in DOMAIN l[1]) = ~IsNull(v.NotBefore)
            /\ ("not_after" \in DOMAIN l[1]) = ~IsNull(v.NotAfter)
            /\ ~IsNull(v.NotBefore) => l[1]["not_before"] = RemoteText(v.NotBefore)
            /\ ~IsNull(v.NotAfter) => l[1]["not_after"] = RemoteText(v.NotAfter)

\* C9 amended: a validity window is mapped to exactly one record that
\* holds each non-null bound as the same instant rendered in RFC 3339 with
\* exactly three fractional digits ("2023-01-01T00:00:00Z" becomes
\* "2023-01-01T00:00:00.000Z"); the text is the remote text only when that
\* has three fractional digits; a null bound is left out.
C9_ValidityMillis ==
    ValidityMapped =>
        LET v == meta.Validity
            l == d.attrs["validity"].list
        IN  /\ Len(l) = 1
            /\ ("not_before" \in DOMAIN l[1]) = ~IsNull(v.NotBefore)
            /\ ("not_after" \in DOMAIN l[1]) = ~IsNull(v.NotAfter)
            /\ ~IsNull(v.NotBefore) =>
                  /\ IsMillisTextOf(l[1]["not_before"], v.NotBefore)
                  /\ (l[1]["not_before"] = RemoteText(v.NotBefore))
                        = (Len(v.NotBefore.frac) = 3)
            /\ ~IsNull(v.NotAfter) =>
                  /\ IsMillisTextOf(l[1]["not_after"], v.NotAfter)
                  /\ (l[1]["not_after"] = RemoteText(v.NotAfter))
                        = (Len(v.NotAfter.frac) = 3)

\* the window 2023-01-01T00:00:00Z .. 2024-01-01T00:00:00Z mapped to one
\* record with both bounds
C9_Witness ==
    /\ ValidityMapped
    /\ meta.Validity = [NotBefore |-> Time(0, <<>>), NotAfter |-> Time(1, <<>>)]
    /\ d.attrs["validity"] =
          ListV(<<[not_before |-> TimeText("T", 0, <<0, 0, 0>>, "Z"),
                   not_after  |-> TimeText("T", 1, <<0, 0, 0>>, "Z")]>>)

\* ------------------------------------------------------------------------
\* C10
\* ------------------------------------------------------------------------

\* the error a read returns describes the failure it met
DescribesFailure ==
    CASE diags.kind = "session"  -> diags.cause \in SessionErrors
      [] diags.kind = "fetch"    -> diags.cause = failed.err
      [] diags.kind = "rotation" -> diags.cause = UnrecognizedSubtype
      [] diags.kind = "assign"   -> diags.key = StepsOf(ds)[step].key
      [] OTHER -> FALSE

\* C10: a failure of any kind ends the read at that point: the read has
\* returned an error describing the failure, and from then on this read
\* assigns no attribute and makes no remote call.
C10_FailureIsTerminal ==
    /\ [](diags # NoDiag => (pc = "returned" /\ DescribesFailure))
    /\ [][(diags # NoDiag /\ reads' = reads) =>
              UNCHANGED <<pc, d, calls, step, diags>>]_vars

\* a read ended by a failed session, before any remote call
C10_Witness ==
    /\ ReadFailed
    /\ diags.kind = "session"
    /\ calls = <<>>
    /\ d = NewResourceData


\* ------------------------------------------------------------------------
\* C11
\* ------------------------------------------------------------------------

\* is a schema entry computed only: set by the provider, never by the caller
ComputedOnly(e) == e.computed /\ ~e.required /\ ~e.optional

\* is a schema entry a required input of the caller
RequiredInput(e) == e.required /\ ~e.computed

\* C11: in the schema of the data source being read, whichever of the two
\* it is, "id" is the only attribute that is required and caller-supplied;
\* every other top-level attribute and every attribute of the nested
\* rotation and validity records is computed; no attribute is both required
\* and computed; every attribute the read has written is a computed one.
C11_OnlyIdIsRequired ==
    LET sch == SchemaOf(ds)
    IN  /\ "id" \in DOMAIN sch
        /\ RequiredInput(sch["id"])
        /\ \A k \in DOMAIN sch \ {"id"} : ComputedOnly(sch[k])
        /\ \A k \in DOMAIN sch : ~(sch[k].required /\ sch[k].computed)
        /\ \A n \in NestedKeys \cap DOMAIN sch :
              \A k \in DOMAIN ElemSchema(n) : ComputedOnly(ElemSchema(n)[k])
        /\ \A k \in DOMAIN d.attrs : ComputedOnly(sch[k])

\* a read of the username/password data source that was given its id by
\* the caller and has written computed attributes, nested ones included
C11_Witness ==
    /\ pc = "returned"
    /\ ds = "UsernamePassword"
    /\ callerId = "secret-456"
    /\ RequiredInput(SchemaOf(ds)["id"])
    /\ "rotation" \in DOMAIN d.attrs
    /\ d.attrs["rotation"].list # <<>>
    /\ "unit" \in DOMAIN d.attrs["rotation"].list[1]

\* ------------------------------------------------------------------------
\* C12
\* ------------------------------------------------------------------------

\* the remote field behind a nested attribute
NestedFieldOf == [rotation |-> "Rotation", validity |-> "Validity"]

\* every nested attribute written so far holds no record when the remote
\* field is null and one record when it is present
NestedLengths ==
    \A n \in NestedKeys \cap DOMAIN d.attrs :
        Len(d.attrs[n].list) = IF IsNull(meta[NestedFieldOf[n]]) THEN 0 ELSE 1

\* C12 as stated: rotation and validity are singleton nested records: the
\* schema declares a list that enforces at most one element, and every
\* value a read writes to them has length 0 (remote field null) or 1.
C12_SingletonEnforcedBySchema ==
    (NestedKeys \cap DOMAIN d.attrs # {}) =>
        /\ \A n \in NestedKeys \cap DOMAIN d.attrs :
              /\ SchemaOf(ds)[n].type = "TypeList"
              /\ SchemaOf(ds)[n].maxItems = 1
        /\ NestedLengths

\* C12 amended: the schema declares rotation and validity as computed
\* lists of nested records with no limit on the number of elements; every
\* value a read writes to them has length 0 (remote field null) or 1
\* (remote field present), so "at most one" holds by the read alone.
C12_SingletonByConstruction ==
    /\ \A source \in DataSources :
          \A n \in NestedKeys \cap DOMAIN SchemaOf(source) :
              /\ SchemaOf(source)[n].type = "TypeList"
              /\ SchemaOf(source)[n].computed
              /\ SchemaOf(source)[n].maxItems = 0
    /\ NestedLengths

\* a certificate read that wrote an empty rotation and a one-record validity
C12_Witness ==
    /\ ds = "PrivateCertificate"
    /\ "rotation" \in DOMAIN d.attrs
    /\ "validity" \in DOMAIN d.attrs
    /\ IsNull(meta.Rotation)
    /\ Len(d.attrs["rotation"].list) = 0
    /\ Len(d.attrs["validity"].list) = 1
    /\ DOMAIN d.attrs["validity"].list[1] = {"not_before", "not_after"}


\* ------------------------------------------------------------------------
\* C13
\* ------------------------------------------------------------------------

\* the fetch succeeded with a record of another concrete type than the one
\* the data source asserts
WrongShapeFetched ==
    /\ ~IsNull(meta)
    /\ meta.shape # ExpectedShape(ds)

\* C13: when the fetch succeeds with metadata of another concrete shape
\* than the data source expects, the read returns no error value: it
\* aborts (panics) with no ID and no attribute written.
C13_WrongShapePanics ==
    WrongShapeFetched =>
        /\ failed = NoFailure
        /\ pc \in {"assert", "panicked"}
        /\ diags = NoDiag
        /\ d = NewResourceData
        /\ step = 0

\* the private certificate read aborted on a username/password record
C13_Witness ==
    /\ pc = "panicked"
    /\ ds = "PrivateCertificate"
    /\ ~IsNull(meta)
    /\ meta.shape = "UsernamePasswordSecretMetadata"
    /\ Len(calls) = 1


\* ------------------------------------------------------------------------
\* Two reads side by side.  In PairSpec every variable holds one value per
\* invocation: pc[p], d[p], meta[p], ... belong to read p.  The statements
\* are those of the single read above, applied to the components of p.
\* ------------------------------------------------------------------------

\* the two invocations
Procs == {1, 2}

\* the identifier each invocation is configured with
PairCallerId == <<"secret-123", "secret-456">>

\* a second record, no field of which has the value it has in the full one
OtherMetadata(shape) ==
    [f \in FieldsOf(shape) \cup {"shape"} |->
        CASE f = "shape" -> shape
          [] f = "ID" -> StrV("secret-456")
          [] f \in DateFields -> Time(1, <<5, 5>>)
          [] f \in {"LocksTotal", "State", "VersionsTotal", "RevocationTimeSeconds"} -> IntV(9)
          [] f = "Downloaded" -> BoolV(FALSE)
          [] f = "Labels" -> ListV(<<"prod">>)
          [] f = "AltNames" -> ListV(<<"other.example.com">>)
          [] f = "CustomMetadata" -> MapV([k \in {"owner"} |-> StrV("ops")])
          [] f = "Rotation" ->
                [shape |-> "PublicCertificateRotationPolicy", AutoRotate |-> BoolV(FALSE),
                 Interval |-> Null, Unit |-> StrV("day"), RotateKeys |-> BoolV(TRUE)]
          [] f = "Validity" -> [NotBefore |-> Time(1, <<>>), NotAfter |-> Null]
          [] OTHER -> StrV("other")]

\* what the remote call may return to a read of the pair
PairResponsesFor(source) ==
    {Metadata(ExpectedShape(source), EmptyMap),
     OtherMetadata(ExpectedShape(source)),
     Metadata(ExpectedShape(source),
              [f \in {"Rotation"} |-> [shape |-> "OtherRotationPolicy"]]),
     Metadata(ExpectedShape(source), [f \in {"ID"} |-> Null])}
    \cup {Metadata(sh, EmptyMap) : sh \in MetadataShapes \ {ExpectedShape(source)}}

PairPrivateCertificateResponses == PairResponsesFor("PrivateCertificate")

PairUsernamePasswordResponses == PairResponsesFor("UsernamePassword")

PairResponses(source) ==
    IF source = "PrivateCertificate" THEN PairPrivateCertificateResponses
    ELSE PairUsernamePasswordResponses

PairInit ==
    /\ pc = [p \in Procs |-> "idle"]
    /\ ds = [p \in Procs |-> "PrivateCertificate"]
    /\ callerId = [p \in Procs |-> PairCallerId[p]]
    /\ d = [p \in Procs |-> NewResourceData]
    /\ meta = [p \in Procs |-> Null]
    /\ step = [p \in Procs |-> 0]
    /\ diags = [p \in Procs |-> NoDiag]
    /\ calls = [p \in Procs |-> <<>>]
    /\ failed = [p \in Procs |-> NoFailure]
    /\ reads = [p \in Procs |-> 0]

\* the pc of every read after read p panicked: the panic is not recovered,
\* the provider process ends, and with it every read that was in flight
AfterPanic(p) ==
    [q \in Procs |->
        IF q = p \/ pc[q] \notin {"idle", "returned"} THEN "panicked" ELSE pc[q]]

\* the runtime invokes ReadContext of a data source with a fresh
\* ResourceData, as long as the provider process is alive
PInvoke(p, source) ==
    /\ pc[p] = "idle"
    /\ \A q \in Procs : pc[q] # "panicked"
    /\ pc' = [pc EXCEPT ![p] = "session"]
    /\ ds' = [ds EXCEPT ![p] = source]
    /\ reads' = [reads EXCEPT ![p] = 1]
    /\ UNCHANGED <<callerId, d, meta, step, diags, calls, failed>>

PSessionOk(p) ==
    /\ pc[p] = "session"
    /\ pc' = [pc EXCEPT ![p] = "fetch"]
    /\ UNCHANGED <<ds, callerId, d, meta, step, diags, calls, failed, reads>>

PSessionFail(p, e) ==
    /\ pc[p] = "session"
    /\ pc' = [pc EXCEPT ![p] = "returned"]
    /\ diags' = [diags EXCEPT ![p] = Diag("session", "", e, "")]
    /\ UNCHANGED <<ds, callerId, d, meta, step, calls, failed, reads>>

PFetchCall(p) ==
    /\ pc[p] = "fetch"
    /\ calls' = [calls EXCEPT ![p] = Append(calls[p], callerId[p])]
    /\ pc' = [pc EXCEPT ![p] = "waiting"]
    /\ UNCHANGED <<ds, callerId, d, meta, step, diags, failed, reads>>

\* variant: the fetched record is kept in one place shared by all reads
PFetchOkSharedRecord(p) ==
    /\ pc[p] = "waiting"
    /\ \E rec \in PairResponses(ds[p]) : meta' = [q \in Procs |-> rec]
    /\ pc' = [pc EXCEPT ![p] = "assert"]
    /\ UNCHANGED <<ds, callerId, d, step, diags, calls, failed, reads>>

PFetchOk(p) ==
    /\ pc[p] = "waiting"
    /\ \E rec \in PairResponses(ds[p]) : meta' = [meta EXCEPT ![p] = rec]
    /\ pc' = [pc EXCEPT ![p] = "assert"]
    /\ UNCHANGED <<ds, callerId, d, step, diags, calls, failed, reads>>

PFetchFail(p, f) ==
    /\ pc[p] = "waiting"
    /\ failed' = [failed EXCEPT ![p] = f]
    /\ diags' = [diags EXCEPT ![p] = Diag("fetch", "", f.err, f.response)]
    /\ pc' = [pc EXCEPT ![p] = "returned"]
    /\ UNCHANGED <<ds, callerId, d, meta, step, calls, reads>>

PTypeAssertOk(p) ==
    /\ pc[p] = "assert"
    /\ meta[p].shape = ExpectedShape(ds[p])
    /\ pc' = [pc EXCEPT ![p] = "setid"]
    /\ UNCHANGED <<ds, callerId, d, meta, step, diags, calls, failed, reads>>

PTypeAssertPanic(p) ==
    /\ pc[p] = "assert"
    /\ meta[p].shape # ExpectedShape(ds[p])
    /\ pc' = AfterPanic(p)
    /\ UNCHANGED <<ds, callerId, d, meta, step, diags, calls, failed, reads>>

\* variant: the state ID is taken from the configured id
PSetIdOkFromConfig(p) ==
    /\ pc[p] = "setid"
    /\ ~IsNull(meta[p].ID)
    /\ d' = [d EXCEPT ![p] = SetId(d[p], StrV(callerId[p]))]
    /\ pc' = [pc EXCEPT ![p] = "attrs"]
    /\ step' = [step EXCEPT ![p] = 1]
    /\ UNCHANGED <<ds, callerId, meta, diags, calls, failed, reads>>

PSetIdOk(p) ==
    /\ pc[p] = "setid"
    /\ ~IsNull(meta[p].ID)
    /\ d' = [d EXCEPT ![p] = SetId(d[p], meta[p].ID)]
    /\ pc' = [pc EXCEPT ![p] = "attrs"]
    /\ step' = [step EXCEPT ![p] = 1]
    /\ UNCHANGED <<ds, callerId, meta, diags, calls, failed, reads>>

PSetIdPanic(p) ==
    /\ pc[p] = "setid"
    /\ IsNull(meta[p].ID)
    /\ pc' = AfterPanic(p)
    /\ UNCHANGED <<ds, callerId, d, meta, step, diags, calls, failed, reads>>

PAttrOk(p) ==
    /\ pc[p] = "attrs"
    /\ step[p] <= Len(StepsOf(ds[p]))
    /\ LET r == AssignStep(ds[p], d[p], meta[p], StepsOf(ds[p])[step[p]])
       IN  /\ r.diag = NoDiag
           /\ d' = [d EXCEPT ![p] = r.d]
    /\ step' = [step EXCEPT ![p] = step[p] + 1]
    /\ UNCHANGED <<pc, ds, callerId, meta, diags, calls, failed, reads>>

PAttrFail(p) ==
    /\ pc[p] = "attrs"
    /\ step[p] <= Len(StepsOf(ds[p]))
    /\ LET r == AssignStep(ds[p], d[p], meta[p], StepsOf(ds[p])[step[p]])
       IN  /\ r.diag # NoDiag
           /\ d' = [d EXCEPT ![p] = r.d]
           /\ diags' = [diags EXCEPT ![p] = r.diag]
    /\ pc' = [pc EXCEPT ![p] = "returned"]
    /\ UNCHANGED <<ds, callerId, meta, step, calls, failed, reads>>

PReturnNil(p) ==
    /\ pc[p] = "attrs"
    /\ step[p] = Len(StepsOf(ds[p])) + 1
    /\ pc' = [pc EXCEPT ![p] = "returned"]
    /\ UNCHANGED <<ds, callerId, d, meta, step, diags, calls, failed, reads>>

PairNext ==
    \/ \E p \in Procs, source \in DataSources : PInvoke(p, source)
    \/ \E p \in Procs : PSessionOk(p)
    \/ \E p \in Procs, e \in SessionErrors : PSessionFail(p, e)
    \/ \E p \in Procs : PFetchCall(p)
    \/ \E p \in Procs : PFetchOk(p)
    \/ \E p \in Procs, f \in RemoteFailures : PFetchFail(p, f)
    \/ \E p \in Procs : PTypeAssertOk(p)
    \/ \E p \in Procs : PTypeAssertPanic(p)
    \/ \E p \in Procs : PSetIdOk(p)
    \/ \E p \in Procs : PSetIdPanic(p)
    \/ \E p \in Procs : PAttrOk(p)
    \/ \E p \in Procs : PAttrFail(p)
    \/ \E p \in Procs : PReturnNil(p)

PairSpec == PairInit /\ [][PairNext]_vars


\* ------------------------------------------------------------------------
\* C14
\* ------------------------------------------------------------------------

\* read p of the pair has ended, by returning or by aborting
Final(p) == pc[p] \in {"returned", "panicked"}

\* what session acquisition gave read p once it has ended: the error, or
\* "ok" when the read went on to the remote call
SessionOutcome(p) == IF calls[p] = <<>> THEN diags[p].cause ELSE "ok"

\* reads p and q received the same session outcome and the same remote
\* result (the same record, or the same error with the same response)
SameInputs(p, q) ==
    /\ SessionOutcome(p) = SessionOutcome(q)
    /\ failed[p] = failed[q]
    /\ meta[p] = meta[q]

RECURSIVE RunFrom(_, _, _, _)
RunFrom(source, d0, rec, i) ==
    IF i > Len(StepsOf(source)) THEN [d |-> d0, diag |-> NoDiag]
    ELSE LET r == AssignStep(source, d0, rec, StepsOf(source)[i])
         IN  IF r.diag # NoDiag THEN r
             ELSE RunFrom(source, r.d, rec, i + 1)

\* what a read of source that fetched rec produces when it runs alone
LoneRead(source, rec) == RunFrom(source, SetId(NewResourceData, rec.ID), rec, 1)

\* the lone read of every record of the expected shape a read of the pair
\* may fetch
LoneReads ==
    [source \in DataSources |->
        [rec \in {r \in PairResponses(source) :
                        r.shape = ExpectedShape(source) /\ ~IsNull(r.ID)} |->
            LoneRead(source, rec)]]

\* the state of read p: everything the variables hold for it
Local(p) ==
    <<pc[p], ds[p], callerId[p], d[p], meta[p], step[p], diags[p], calls[p],
      failed[p], reads[p]>>

\* read p holds only what it was given itself and what it made of it
OwnStateOnly(p) ==
    /\ calls[p] \in {<<>>, <<callerId[p]>>}
    /\ pc[p] \in {"idle", "session", "fetch", "waiting"} =>
            /\ meta[p] = Null
            /\ d[p] = NewResourceData
    /\ (meta[p] = Null \/ pc[p] \in {"assert", "setid", "panicked"}) =>
            d[p] = NewResourceData
    /\ (meta[p] # Null /\ pc[p] = "attrs") =>
            LET lone == LoneReads[ds[p]][meta[p]]
            IN  /\ d[p].id = meta[p].ID
                /\ diags[p] = NoDiag
                /\ \A key \in DOMAIN d[p].attrs :
                        /\ key \in DOMAIN lone.d.attrs
                        /\ d[p].attrs[key] = lone.d.attrs[key]
    /\ (meta[p] # Null /\ pc[p] = "returned") =>
            LET lone == LoneReads[ds[p]][meta[p]]
            IN  /\ d[p] = lone.d
                /\ diags[p] = lone.diag

\* a step is a step of one read and leaves the state of the other alone
OneReadSteps == \E p \in Procs : \A q \in Procs \ {p} : Local(q)' = Local(q)

\* C15 as stated: with two reads interleaved in any order, each read's
\* ResourceData holds only the ID and the attribute values a read running
\* alone makes of the record this read fetched, its remote call carries its
\* own id, its diagnostics are those of the lone read, and no step of one
\* read changes anything the other read holds.
C15_NoSharedState ==
    /\ [](\A p \in Procs : OwnStateOnly(p))
    /\ [][OneReadSteps]_vars

\* the record read p fetched makes the read panic: it is of another shape
\* than the data source expects, or its ID is nil
PanicsOnOwnRecord(p) ==
    /\ meta[p] # Null
    /\ meta[p].shape # ExpectedShape(ds[p]) \/ IsNull(meta[p].ID)

\* whatever read p holds comes from what it was given itself
OwnValuesOnly(p) ==
    /\ calls[p] \in {<<>>, <<callerId[p]>>}
    /\ (meta[p] = Null \/ PanicsOnOwnRecord(p)) => d[p] = NewResourceData
    /\ d[p] # NewResourceData =>
            LET lone == LoneReads[ds[p]][meta[p]]
            IN  /\ d[p].id = meta[p].ID
                /\ \A key \in DOMAIN d[p].attrs :
                        /\ key \in DOMAIN lone.d.attrs
                        /\ d[p].attrs[key] = lone.d.attrs[key]
    /\ pc[p] \in {"waiting", "assert", "setid"} => d[p] = NewResourceData
    /\ pc[p] \in {"fetch", "waiting"} => (meta[p] = Null /\ failed[p] = NoFailure)
    /\ (meta[p] # Null /\ pc[p] = "returned") =>
            LET lone == LoneReads[ds[p]][meta[p]]
            IN  /\ d[p] = lone.d
                /\ diags[p] = lone.diag

\* a read that was aborted panicked on its own record, or was in flight
\* when the other read panicked on its own
AbortExplained(p) ==
    pc[p] = "panicked" =>
        \/ PanicsOnOwnRecord(p)
        \/ \E q \in Procs \ {p} : pc[q] = "panicked" /\ PanicsOnOwnRecord(q)

\* a step of read p leaves the other read alone, unless it is a panic of
\* read p: then the other read is aborted where it stands if it was in
\* flight, and keeps everything else it holds
OneReadStepsOrAbort ==
    \E p \in Procs : \A q \in Procs \ {p} :
        \/ Local(q)' = Local(q)
        \/ /\ pc'[p] = "panicked" /\ pc[p] \in {"assert", "setid"}
           /\ PanicsOnOwnRecord(p)
           /\ pc[q] \notin {"idle", "returned", "panicked"}
           /\ pc'[q] = "panicked"
           /\ <<ds[q], callerId[q], d[q], meta[q], step[q], diags[q], calls[q],
                failed[q], reads[q]>>' =
              <<ds[q], callerId[q], d[q], meta[q], step[q], diags[q], calls[q],
                failed[q], reads[q]>>

\* C15 amended: with two reads interleaved in any order, each read's
\* ResourceData holds only the ID and attribute values a lone read makes of
\* the record this read fetched, and a read that returns has the
\* ResourceData and diagnostics of the lone read; the reads share nothing
\* but the provider process: the only step of one read that touches the
\* other is a panic (record of another shape, nil ID), which aborts the
\* other read if it is in flight; a read is aborted for no other reason.
C15_SharedProcessOnly ==
    /\ [](\A p \in Procs : OwnValuesOnly(p) /\ AbortExplained(p))
    /\ [][OneReadStepsOrAbort]_vars

\* a username/password read panicked on a record with a nil ID while a
\* private certificate read of a full record was in the middle of its
\* assignments: that read is aborted too, holding the ID and the attributes
\* it had written from its own record
C15_Witness ==
    /\ pc = [p \in Procs |-> "panicked"]
    /\ ds[1] = "PrivateCertificate"
    /\ ds[2] = "UsernamePassword"
    /\ meta[1] = Metadata("PrivateCertificateMetadata", EmptyMap)
    /\ IsNull(meta[2].ID)
    /\ d[2] = NewResourceData
    /\ d[1].id = StrV("secret-123")
    /\ "name" \in DOMAIN d[1].attrs
    /\ "rotation" \notin DOMAIN d[1].attrs


\* ------------------------------------------------------------------------
\* C16
\* ------------------------------------------------------------------------

\* the order in which a read moves from one statement to the next
StepOrder ==
    {<<"idle", "session">>, <<"returned", "session">>, <<"panicked", "session">>,
     <<"session", "fetch">>, <<"session", "returned">>,
     <<"fetch", "waiting">>,
     <<"waiting", "assert">>, <<"waiting", "returned">>,
     <<"assert", "setid">>, <<"assert", "panicked">>,
     <<"setid", "attrs">>, <<"setid", "panicked">>,
     <<"attrs", "returned">>}

\* what holds at each position of a read
OrderedState ==
    /\ pc \in {"session", "fetch"} =>
            /\ calls = <<>>
            /\ meta = Null
            /\ d = NewResourceData
    /\ pc = "waiting" =>
            /\ calls = <<callerId>>
            /\ meta = Null
            /\ failed = NoFailure
            /\ diags = NoDiag
            /\ d = NewResourceData
    /\ pc \in {"assert", "setid"} =>
            /\ calls = <<callerId>>
            /\ meta # Null
            /\ failed = NoFailure
            /\ d = NewResourceData
    /\ d.id # Null =>
            /\ pc \in {"attrs", "returned"}
            /\ calls = <<callerId>>
            /\ failed = NoFailure
            /\ meta # Null
            /\ d.id = meta.ID
    /\ d.attrs # EmptyMap => d.id # Null
    /\ pc = "attrs" => DOMAIN d.attrs \subseteq KeysBefore(ds, step)
    /\ ReadSucceeded => (d.id # Null /\ ~IsNull(d.id))
    /\ (meta # Null /\ meta.shape = ExpectedShape(ds) /\ IsNull(meta.ID)) =>
            /\ pc \in {"assert", "setid", "panicked"}
            /\ diags = NoDiag
            /\ d = NewResourceData

\* what a step of a read may do
OrderedStep ==
    /\ pc' # pc => <<pc, pc'>> \in StepOrder
    /\ (pc = "attrs" /\ pc' = "attrs") =>
            /\ step' = step + 1
            /\ DOMAIN d'.attrs \ DOMAIN d.attrs \subseteq {StepsOf(ds)[step].key}
    /\ (d'.id # d.id /\ pc # "setid") => d' = NewResourceData
    /\ (pc = "setid" /\ pc' = "attrs") => (d'.id = meta.ID /\ d'.attrs = EmptyMap)

\* C16: a read goes through session acquisition, the remote fetch, the type
\* check, d.SetId and then the attribute statements in their fixed order,
\* leaving that sequence only by returning or aborting; the ID is set only
\* after a fetch without error and before any attribute, and is the ID of
\* the fetched record; a read that returns without error has a non-null ID;
\* a record with a null ID aborts the read with no diagnostics and nothing
\* written.
C16_OrderedRead ==
    /\ []OrderedState
    /\ [][OrderedStep]_vars

\* a read configured with one id fetched a record carrying another and has
\* returned without error, the state ID being the record's
C16_Witness ==
    /\ ReadSucceeded
    /\ callerId = "secret-456"
    /\ meta.ID = StrV("secret-123")
    /\ d.id = StrV("secret-123")
    /\ d.attrs # EmptyMap


\* ------------------------------------------------------------------------
\* C17
\* ------------------------------------------------------------------------

\* the type checks of the dispatch that accept a policy
BranchesFor(model) == {sh \in KnownRotationShapes : model.shape = sh}

\* the dispatch of a data source with its type checks tried in the opposite
\* order
RotationPolicyToMapReversed(source, model) ==
    IF model.shape = "RotationPolicy"
    THEN RotationPolicyToMap(source, model)
    ELSE IF model.shape = "PublicCertificateRotationPolicy"
    THEN IF source = "PrivateCertificate"
         THEN dataSourceIbmSmPrivateCertificateMetadataPublicCertificateRotationPolicyToMap(model)
         ELSE dataSourceIbmSmUsernamePasswordSecretMetadataPublicCertificateRotationPolicyToMap(model)
    ELSE IF model.shape = "CommonRotationPolicy"
    THEN IF source = "PrivateCertificate"
         THEN dataSourceIbmSmPrivateCertificateMetadataCommonRotationPolicyToMap(model)
         ELSE dataSourceIbmSmUsernamePasswordSecretMetadataCommonRotationPolicyToMap(model)
    ELSE [modelMap |-> Null, err |-> UnrecognizedSubtype]

\* the two mappers agree on a policy, and so does either with its type
\* checks reversed
MappersAgreeOn(model) ==
    LET cert == dataSourceIbmSmPrivateCertificateMetadataRotationPolicyToMap(model)
        user == dataSourceIbmSmUsernamePasswordSecretMetadataRotationPolicyToMap(model)
    IN  /\ (cert.err = NoErr) <=> (user.err = NoErr)
        /\ cert.err = NoErr => cert.modelMap = user.modelMap
        /\ cert.err # NoErr => cert.err = user.err
        /\ Cardinality(BranchesFor(model)) <= 1
        /\ (BranchesFor(model) = {}) <=> (cert.err # NoErr)
        /\ \A source \in DataSources :
                RotationPolicyToMapReversed(source, model) = RotationPolicyToMap(source, model)

\* the mappers agree on every rotation policy
AllPoliciesAgree == \A model \in RotationPolicies : MappersAgreeOn(model)

\* the rotation statement of the read has run on a non-null policy
RotationStatementRan ==
    /\ meta # Null
    /\ meta.shape = ExpectedShape(ds)
    /\ ~IsNull(meta.Rotation)
    /\ \/ RotationMapped
       \/ ReadFailed /\ diags.kind = "rotation"

\* the data source other than source
OtherSource(source) == CHOOSE o \in DataSources : o # source

\* C17: on every rotation policy (the three known shapes with any nulls, and
\* an unknown shape) the two mappers return the same map or both the error,
\* at most one type check accepts the policy, and trying the checks in the
\* opposite order gives the same result; what a read of either data source
\* wrote as rotation, or returned as error, is what the mapper of the other
\* data source gives for the fetched policy.
C17_MappersEquivalent ==
    /\ AllPoliciesAgree
    /\ RotationStatementRan =>
            LET other == RotationPolicyToMap(OtherSource(ds), meta.Rotation)
            IN  /\ MappersAgreeOn(meta.Rotation)
                /\ RotationMapped =>
                        /\ other.err = NoErr
                        /\ d.attrs["rotation"] = ListV(<<other.modelMap>>)
                /\ ~RotationMapped =>
                        /\ other.err # NoErr
                        /\ diags.cause = other.err

\* a username/password read wrote the record of a generic RotationPolicy,
\* rotate_keys included
C17_Witness ==
    /\ ds = "UsernamePassword"
    /\ RotationStatementRan
    /\ RotationMapped
    /\ meta.Rotation.shape = "RotationPolicy"
    /\ "rotate_keys" \in DOMAIN d.attrs["rotation"].list[1]
    /\ "interval" \notin DOMAIN d.attrs["rotation"].list[1]


\* ------------------------------------------------------------------------
\* C18
\* ------------------------------------------------------------------------

\* attributes only the private certificate data source declares
CertificateOnlyAttrs == DOMAIN PrivateCertificateSchema \ DOMAIN UsernamePasswordSchema

\* the keys a nested record may have
NestedRecordKeys ==
    [rotation |-> {"auto_rotate", "interval", "unit", "rotate_keys"},
     validity |-> {"not_before", "not_after"}]

\* everything written so far is declared where it was written
WritesDeclared ==
    /\ DOMAIN d.attrs \subseteq DOMAIN SchemaOf(ds)
    /\ "id" \notin DOMAIN d.attrs
    /\ \A key \in NestedKeys \cap DOMAIN d.attrs :
            \A n \in 1..Len(d.attrs[key].list) :
                /\ DOMAIN d.attrs[key].list[n] \subseteq DOMAIN ElemSchema(key)
                /\ DOMAIN d.attrs[key].list[n] \subseteq NestedRecordKeys[key]
    /\ ds = "UsernamePassword" => DOMAIN d.attrs \cap CertificateOnlyAttrs = {}
    /\ diags.kind # "assign"
    /\ \A i \in 1..Len(StepsOf(ds)) :
            /\ StepsOf(ds)[i].key \in DOMAIN SchemaOf(ds)
            /\ StepsOf(ds)[i].key # "id"

\* the configured id changes only when the runtime starts another read
ConfiguredIdKept == callerId' # callerId => (pc \in {"idle", "returned", "panicked"} /\ pc' = "session")

\* C18: every attribute a read has written is declared in the schema of its
\* data source and is not "id"; every key of a rotation or validity record
\* it has written is declared in the nested schema; a username/password
\* read has written no attribute that only the private certificate schema
\* declares; no d.Set was rejected; the configured id is not changed by any
\* statement of a read.
C18_WritesWithinSchema ==
    /\ []WritesDeclared
    /\ [][ConfiguredIdKept]_vars

\* a username/password read has returned without error with all its
\* attributes and a full rotation record written
C18_Witness ==
    /\ ds = "UsernamePassword"
    /\ ReadSucceeded
    /\ DOMAIN d.attrs = {UsernamePasswordSteps[i].key : i \in 1..Len(UsernamePasswordSteps)}
    /\ Len(d.attrs["rotation"].list) = 1
    /\ DOMAIN d.attrs["rotation"].list[1] = NestedRecordKeys["rotation"]

====
